---- MODULE Spec2Model ----
(***************************************************************************)
(* Model of the psychometric reporter: the Score Processor                 *)
(* (app/services/test_logic.py, app/models/psychometric.py), the chart     *)
(* dispatch into ChartFactory (app/services/chart_factory.py) and the      *)
(* regeneration of the quadrant-circle chart (app/services/llm_service.py, *)
(* app/api/report.py).                                                     *)
(*                                                                         *)
(* A Python str is a sequence of one-character strings; the two words      *)
(* "nan" and "inf" are kept as single symbols of the alphabet.  A Python   *)
(* float is a record: k = "fin" with the decimal value n / 10^f (f kept    *)
(* minimal), or k = "nan", or k = "inf" with n = 1 / -1 for the sign.      *)
(***************************************************************************)
EXTENDS Integers, Sequences, FiniteSets, TLC

\* ------------------------------------------------------------------ bounds
MaxLen == 5          \* longest score string given to parse_score
MaxBelowTenths == 50 \* a score given to get_benchmark is from this far
MaxTenths == 1100    \*   below 0 up to this, in tenths
MaxSections == 2     \* most entries in a payload's sections list
MaxTests == 2        \* most raw tests in a request
MaxCalls == 2        \* most calls of generate_ai_analysis on one list
MaxShort == 3        \* renderers: longest list with every choice of pairs
MaxPairs == 15       \* renderers: longest list of (label, score) pairs
MaxGauge == 120      \* generate_gauge: largest value, 220 above the smallest
MaxRenders == 2      \* pyplot: most renderer calls started
MaxThreads == 2      \* pyplot: most renderer calls running at once

\* --------------------------------------------------------------- variables
VARIABLES
    score_arg,        \* parse_score: the argument
    score_res,        \* parse_score: the outcome of the call
    bench_score,      \* get_benchmark: the argument
    tier,             \* get_benchmark: the returned tier
    raw_test,         \* process_raw: the RawPsychometricTest
    result,           \* process_raw: the outcome of the call
    batch,            \* generate_report: student_input.psychometric_data
    pc,               \* generate_report: where the request is
    idx,              \* generate_report: the next raw test of the loop
    processed_tests,  \* generate_report: the list given to the analysis
    fifth_key_test,   \* generate_ai_analysis: index in processed_tests, 0 = None
    main_resp_str,    \* generate_ai_analysis: the main response
    vark_descs,       \* generate_ai_analysis: the descriptions obtained
    calls,            \* calls of generate_ai_analysis on processed_tests
    regens,           \* assignments made to charts['vark_circles'] by them
    chart_call,       \* ChartFactory: the renderer called and its arguments
    drawing,          \* ChartFactory: what the call drew, or what it raised
    renders,          \* pyplot: the renderer calls started, in order
    figs,             \* pyplot: the open figures, the current one last
    surface           \* pyplot: per figure, the operations applied to it

scoreVars == <<score_arg, score_res>>
benchVars == <<bench_score, tier>>
processVars == <<raw_test, result>>
analysisVars == <<fifth_key_test, main_resp_str, vark_descs>>
reportVars == <<batch, pc, idx, processed_tests, analysisVars, calls, regens>>

chartVars == <<chart_call, drawing>>
renderVars == <<renders, figs, surface>>

vars == <<scoreVars, benchVars, processVars, reportVars, chartVars, renderVars>>

\* ------------------------------------------------------------ Python float
RECURSIVE Pow10(_)
Pow10(k) == IF k = 0 THEN 1 ELSE 10 * Pow10(k - 1)

RECURSIVE Pow2(_)
Pow2(k) == IF k = 0 THEN 1 ELSE 2 * Pow2(k - 1)

Abs(x) == IF x < 0 THEN -x ELSE x

RECURSIVE Fin(_, _)
Fin(n, f) ==
    IF f > 0 /\ n % 10 = 0 THEN Fin(n \div 10, f - 1)
    ELSE [k |-> "fin", n |-> n, f |-> f]

NaN == [k |-> "nan", n |-> 0, f |-> 0]
Inf == [k |-> "inf", n |-> 1, f |-> 0]
NegInf == [k |-> "inf", n |-> -1, f |-> 0]
Zero == Fin(0, 0)

IsFin(x) == x.k = "fin"

\* x == c and x >= c for a float x and an integer literal c
FloatEqInt(x, c) == IsFin(x) /\ x.n = c * Pow10(x.f)

FloatGeInt(x, c) ==
    \/ IsFin(x) /\ x.n >= c * Pow10(x.f)
    \/ x.k = "inf" /\ x.n > 0

FloatLeInt(x, c) ==
    \/ IsFin(x) /\ x.n <= c * Pow10(x.f)
    \/ x.k = "inf" /\ x.n < 0

\* ------------------------------------------- binary64 arithmetic (IEEE 754)
\* A natural number of any size is a little-endian sequence of limbs in base
\* 2^15 without leading zero limbs; 0 is the empty sequence.
LimbBits == 15
LimbBase == 32768
MantBits == 53

RECURSIVE BigOf(_)
BigOf(n) == IF n = 0 THEN <<>> ELSE <<n % LimbBase>> \o BigOf(n \div LimbBase)

RECURSIVE BigTrim(_)
BigTrim(x) ==
    IF x # <<>> /\ x[Len(x)] = 0 THEN BigTrim(SubSeq(x, 1, Len(x) - 1)) ELSE x

LimbAt(x, i) == IF i <= Len(x) THEN x[i] ELSE 0

RECURSIVE BigMulC(_, _, _)
BigMulC(x, c, carry) ==
    IF x = <<>> THEN BigOf(carry)
    ELSE LET t == Head(x) * c + carry
         IN  <<t % LimbBase>> \o BigMulC(Tail(x), c, t \div LimbBase)

BigMulSmall(x, c) == BigMulC(x, c, 0)

RECURSIVE BigAddSmall(_, _)
BigAddSmall(x, c) ==
    IF c = 0 THEN x
    ELSE IF x = <<>> THEN BigOf(c)
    ELSE LET t == Head(x) + c
         IN  <<t % LimbBase>> \o BigAddSmall(Tail(x), t \div LimbBase)

RECURSIVE BigCmpAt(_, _, _)
BigCmpAt(x, y, i) ==
    IF i = 0 THEN 0
    ELSE IF x[i] < y[i] THEN -1
    ELSE IF x[i] > y[i] THEN 1
    ELSE BigCmpAt(x, y, i - 1)

\* -1, 0, 1 as x < y, x = y, x > y
BigCmp(x, y) ==
    IF Len(x) < Len(y) THEN -1
    ELSE IF Len(x) > Len(y) THEN 1
    ELSE BigCmpAt(x, y, Len(x))

RECURSIVE BigSubB(_, _, _, _)
BigSubB(x, y, i, borrow) ==
    IF i > Len(x) THEN <<>>
    ELSE LET d == x[i] - LimbAt(y, i) - borrow
         IN  <<IF d < 0 THEN d + LimbBase ELSE d>>
                 \o BigSubB(x, y, i + 1, IF d < 0 THEN 1 ELSE 0)

\* x - y for x >= y
BigSub(x, y) == BigTrim(BigSubB(x, y, 1, 0))

RECURSIVE BitLen(_)
BitLen(n) == IF n = 0 THEN 0 ELSE 1 + BitLen(n \div 2)

BigBitLen(x) ==
    IF x = <<>> THEN 0 ELSE (Len(x) - 1) * LimbBits + BitLen(x[Len(x)])

BigIsOdd(x) == x # <<>> /\ x[1] % 2 = 1

\* x div 2^s and x mod 2^s for 0 < s < LimbBits
BigShr(x, s) ==
    BigTrim([i \in 1..Len(x) |->
                (x[i] \div Pow2(s))
                + (LimbAt(x, i + 1) % Pow2(s)) * Pow2(LimbBits - s)])

BigLow(x, s) == LimbAt(x, 1) % Pow2(s)

\* x * 2^n
BigShl(x, n) ==
    IF x = <<>> THEN <<>>
    ELSE [i \in 1..(n \div LimbBits) |-> 0] \o BigMulSmall(x, Pow2(n % LimbBits))

\* round-half-to-even of a truncated significand m; side is the sign of
\* (discarded part - one half)
RoundEven(m, e, side) ==
    LET up == side > 0 \/ (side = 0 /\ BigIsOdd(m))
        m1 == IF up THEN BigAddSmall(m, 1) ELSE m
    IN  IF BigBitLen(m1) > MantBits
        THEN [m |-> BigShr(m1, 1), e |-> e + 1]
        ELSE [m |-> m1, e |-> e]

\* scale p / q into [1, 2): p/q = (r.p / r.q) * 2^r.e
RECURSIVE DivNorm(_, _, _)
DivNorm(p, q, e) ==
    IF BigCmp(p, q) < 0 THEN DivNorm(BigMulSmall(p, 2), q, e - 1)
    ELSE IF BigCmp(p, BigMulSmall(q, 2)) >= 0
         THEN DivNorm(p, BigMulSmall(q, 2), e + 1)
    ELSE [p |-> p, q |-> q, e |-> e]

\* i more quotient bits of r / q by long division
RECURSIVE DivBits(_, _, _, _)
DivBits(r, q, m, i) ==
    LET bit == BigCmp(r, q) >= 0
        r1 == IF bit THEN BigSub(r, q) ELSE r
        m1 == BigAddSmall(BigMulSmall(m, 2), IF bit THEN 1 ELSE 0)
    IN  IF i = 1 \/ m1 = <<>> THEN [m |-> m1, r |-> r1]
        ELSE DivBits(BigMulSmall(r1, 2), q, m1, i - 1)

\* the binary64 nearest to p / q (p, q > 0): significand m of 53 bits and
\* exponent e, value m * 2^e
Div64(p, q) ==
    LET nrm == DivNorm(p, q, 0)
        d == DivBits(nrm.p, nrm.q, <<>>, MantBits)
    IN  RoundEven(d.m, nrm.e - (MantBits - 1),
                  BigCmp(BigMulSmall(d.r, 2), nrm.q))

\* float("n.ddd") for the decimal n / 10^f, n > 0
Parse64(n, f) == Div64(BigOf(n), BigOf(Pow10(f)))

\* a / b
Quot64(a, b) ==
    LET d == Div64(a.m, b.m) IN [m |-> d.m, e |-> d.e + a.e - b.e]

\* x * 100
Mul100x64(x) ==
    LET y == BigMulSmall(x.m, 100)
        s == BigBitLen(y) - MantBits
        low == BigLow(y, s)
        half == Pow2(s - 1)
    IN  RoundEven(BigShr(y, s), x.e + s,
                  IF low > half THEN 1 ELSE IF low < half THEN -1 ELSE 0)

\* sign of x - (2k+1)/20, the decimal halfway point between k/10 and (k+1)/10
TieSide(x, k) ==
    IF x.e < 0
    THEN BigCmp(BigMulSmall(x.m, 20), BigShl(BigOf(2 * k + 1), -x.e))
    ELSE BigCmp(BigShl(BigMulSmall(x.m, 20), x.e), BigOf(2 * k + 1))

\* --------------------------------------------------------------- Python str
Digits == <<"0", "1", "2", "3", "4", "5", "6", "7", "8", "9">>

IsDigit(c) == \E i \in 1..10 : Digits[i] = c

DigitVal(c) == (CHOOSE i \in 1..10 : Digits[i] = c) - 1

\* "/" in s
HasSlash(s) == \E i \in 1..Len(s) : s[i] = "/"

\* s.split('/')
RECURSIVE Split(_)
Split(s) ==
    IF ~HasSlash(s) THEN <<s>>
    ELSE LET i == CHOOSE j \in 1..Len(s) :
                      s[j] = "/" /\ \A h \in 1..(j - 1) : s[h] # "/"
         IN  <<SubSeq(s, 1, i - 1)>> \o Split(SubSeq(s, i + 1, Len(s)))

RECURSIVE DigitsVal(_)
DigitsVal(s) ==
    IF s = <<>> THEN 0
    ELSE 10 * DigitsVal(SubSeq(s, 1, Len(s) - 1)) + DigitVal(s[Len(s)])

Ok(v) == [ok |-> TRUE, v |-> v, exc |-> ""]
Raise(exc) == [ok |-> FALSE, v |-> Zero, exc |-> exc]

\* float(s) for a str s: an optional sign, then nan, inf or a decimal literal
\* with at least one digit and at most one point; anything else is ValueError
float(s) ==
    LET neg == s # <<>> /\ s[1] = "-"
        body == IF neg THEN Tail(s) ELSE s
        points == {i \in 1..Len(body) : body[i] = "."}
        digs == SelectSeq(body, IsDigit)
        frac == IF points = {} THEN 0
                ELSE Len(body) - (CHOOSE i \in points : TRUE)
        mag == DigitsVal(digs)
    IN  IF body = <<"nan">> THEN Ok(NaN)
        ELSE IF body = <<"inf">> THEN Ok(IF neg THEN NegInf ELSE Inf)
        ELSE IF /\ \A i \in 1..Len(body) : IsDigit(body[i]) \/ body[i] = "."
                /\ Cardinality(points) <= 1
                /\ digs # <<>>
             THEN Ok(Fin(IF neg THEN -mag ELSE mag, frac))
        ELSE Raise("ValueError")


\* mutant: the percentage is truncated to one decimal instead of rounded
RoundedPercent_truncated(num, den) ==
    LET sgn == IF (num.n < 0) = (den.n < 0) THEN 1 ELSE -1
        p == Abs(num.n) * Pow10(den.f + 3)
        q == Abs(den.n) * Pow10(num.f)
    IN  Fin(sgn * (p \div q), 1)

\* round(x, 1) of x = (num / den) * 100 for finite num and den # 0.  The
\* exact quotient in tenths is p / q; off a decimal halfway point the
\* binary64 rounding errors of the three operations (below 2^-50 relative)
\* cannot move x across the point, so the nearest tenth of p / q is returned;
\* on a halfway point the side is the one the binary64 value x falls on.
RoundedPercent(num, den) ==
    LET sgn == IF (num.n < 0) = (den.n < 0) THEN 1 ELSE -1
        p == Abs(num.n) * Pow10(den.f + 3)
        q == Abs(den.n) * Pow10(num.f)
        k == p \div q
        r == p % q
        x == Mul100x64(Quot64(Parse64(Abs(num.n), num.f),
                              Parse64(Abs(den.n), den.f)))
        side == TieSide(x, k)
        t == IF 2 * r < q THEN k
             ELSE IF 2 * r > q THEN k + 1
             ELSE IF side < 0 THEN k
             ELSE IF side > 0 THEN k + 1
             ELSE IF k % 2 = 0 THEN k ELSE k + 1
    IN  Fin(sgn * t, 1)

\* round((num / den) * 100, 1) for floats num, den with den # 0
Percent(num, den) ==
    IF num.k = "nan" \/ den.k = "nan" THEN NaN
    ELSE IF num.k = "inf"
         THEN IF den.k = "inf" THEN NaN
              ELSE IF (num.n < 0) = (den.n < 0) THEN Inf ELSE NegInf
    ELSE IF den.k = "inf" THEN Zero
    ELSE RoundedPercent(num, den)

\* --------------------------------------------------- TestProcessor.parse_score
\* The argument is a Python value: t = "str" with the characters s, or a
\* value that is not a str ("none", "int", "float", "bytes": `in` raises
\* TypeError; "list", "dict": `in` tests membership of "/" among the items s).
parse_score(score_str) ==
    IF score_str.t \in {"none", "int", "float", "bytes"} THEN Ok(Zero)
    ELSE IF score_str.t \in {"list", "dict"}
         THEN IF \E i \in 1..Len(score_str.s) : score_str.s[i] = <<"/">>
              THEN Raise("AttributeError")
              ELSE Ok(Zero)
    ELSE IF HasSlash(score_str.s)
         THEN LET parts == Split(score_str.s)
                  num == float(parts[1])
                  den == float(parts[2])
              IN  IF Len(parts) # 2 \/ ~num.ok \/ ~den.ok THEN Ok(Zero)
                  ELSE IF FloatEqInt(den.v, 0) THEN Ok(Zero)
                  ELSE Ok(Percent(num.v, den.v))
    ELSE LET v == float(score_str.s)
         IN  IF v.ok THEN v ELSE Ok(Zero)


\* mutant: the High bound is exclusive
get_benchmark_exclusive(score) ==
    IF ~FloatLeInt(score, 75) /\ score.k # "nan" THEN "High"
    ELSE IF FloatGeInt(score, 60) THEN "Above Average"
    ELSE IF FloatGeInt(score, 40) THEN "Average"
    ELSE "Below Average"

\* ------------------------------------------------ TestProcessor.get_benchmark
get_benchmark(score) ==
    IF FloatGeInt(score, 75) THEN "High"
    ELSE IF FloatGeInt(score, 60) THEN "Above Average"
    ELSE IF FloatGeInt(score, 40) THEN "Average"
    ELSE "Below Average"

\* ------------------------------------------------------------ Python values
Str(s) == [t |-> "str", s |-> s]
PyNone == [t |-> "none", s |-> <<>>]
Absent == [t |-> "absent", s |-> <<>>]      \* a key that a dict does not hold
PyInt == [t |-> "int", s |-> <<>>]
PyList(items) == [t |-> "list", s |-> items]
PyDict(keys) == [t |-> "dict", s |-> keys]

\* bool(x) of an Optional[str]
Truthy(x) == x.t = "str" /\ x.s # <<>>

\* d.get(key, default), field being the value under key or Absent
Get(field, default) == IF field = Absent THEN default ELSE field

UpperCase == <<"A", "B", "C", "D", "E", "F", "G", "H", "I", "J", "K", "L", "M",
               "N", "O", "P", "Q", "R", "S", "T", "U", "V", "W", "X", "Y", "Z">>
LowerCase == <<"a", "b", "c", "d", "e", "f", "g", "h", "i", "j", "k", "l", "m",
               "n", "o", "p", "q", "r", "s", "t", "u", "v", "w", "x", "y", "z">>

LowerChar(c) ==
    IF \E i \in 1..26 : UpperCase[i] = c
    THEN LowerCase[CHOOSE i \in 1..26 : UpperCase[i] = c]
    ELSE c


\* mutant: the key is compared as given
lower_missing(s) == s

\* s.lower()
lower(s) == [i \in 1..Len(s) |-> LowerChar(s[i])]

\* ------------------------------------------------------------- ChartFactory
\* A chart is the record of what the renderer draws from.
Chart(name, labels, scores, descs) ==
    [chart |-> name, labels |-> labels, scores |-> scores, descs |-> descs]

\* int(x) of a float inside an f-string: the exception it raises, or ""
IntError(x) ==
    IF x.k = "nan" THEN "ValueError"
    ELSE IF x.k = "inf" THEN "OverflowError"
    ELSE ""

\* the exception of the first int(score) that fails among scores[1..n]
FirstIntError(scores, n) ==
    IF \E i \in 1..n : IntError(scores[i]) # ""
    THEN IntError(scores[CHOOSE i \in 1..n :
                            /\ IntError(scores[i]) # ""
                            /\ \A j \in 1..(i - 1) : IntError(scores[j]) = ""])
    ELSE ""

Rendered(exc, chart) == IF exc # "" THEN Raise(exc) ELSE Ok(chart)

generate_bar_chart(labels, scores) ==
    Rendered(FirstIntError(scores, Len(scores)),
             Chart("bar", labels, scores, <<>>))

generate_radar_chart(categories, values) ==
    Ok(Chart("radar", categories, values, <<>>))

PaletteLen == 7

Min(a, b) == IF a < b THEN a ELSE b

\* zip(*data) of an empty data cannot be unpacked into three names
generate_radial_bar_chart(labels, scores) ==
    LET n == Min(Min(Len(labels), Len(scores)), 2 * PaletteLen)
    IN  Rendered(IF n = 0 THEN "ValueError" ELSE FirstIntError(scores, n),
                 Chart("donut", labels, scores, <<>>))

generate_seven_segment_chart(labels, scores) ==
    LET n == Min(Len(labels), Len(scores))
        m == Min(n, 2 * PaletteLen)
        exc == FirstIntError(scores, m)
    IN  Rendered(IF exc # "" THEN exc
                 ELSE IF n > 2 * PaletteLen THEN "IndexError" ELSE "",
                 Chart("seven_segment", labels, scores, <<>>))

generate_variable_radius_chart(labels, scores) ==
    Rendered(FirstIntError(scores, Min(Len(labels), Len(scores))),
             Chart("variable_radius", labels, scores, <<>>))

default_descs == <<Str(<<"Visual learners">>), Str(<<"Auditory learners">>),
                   Str(<<"Reading/Writing learners">>),
                   Str(<<"Kinesthetic learners">>)>>

\* bool(x) and len(x) of a Python value; a str or list holds its items in s
IsTrue(x) == x.t \in {"int", "float"} \/ (x.t \in {"str", "list", "dict"} /\ x.s # <<>>)
HasLen(x) == x.t \in {"str", "list", "dict", "bytes"}

\* mutant: the fixed paragraphs are drawn whatever descriptions is
generate_vark_circles_static(scores, labels, descriptions) ==
    IF IsTrue(descriptions) /\ ~HasLen(descriptions) THEN Raise("TypeError")
    ELSE Ok(Chart("vark_circles", <<>>, <<>>, default_descs))

\* descriptions is None, or what the caller passes.  With four items they
\* are indexed 0..3 (KeyError on a dict) and each is wrapped by
\* textwrap.fill, which fails on an item that is not a str.
generate_vark_circles(scores, labels, descriptions) ==
    LET given == IsTrue(descriptions) /\ Len(descriptions.s) = 4
        final_descs == IF ~given THEN default_descs
                       ELSE IF descriptions.t = "str"
                            THEN [i \in 1..4 |-> Str(<<descriptions.s[i]>>)]
                       ELSE descriptions.s
    IN  IF IsTrue(descriptions) /\ ~HasLen(descriptions) THEN Raise("TypeError")
        ELSE IF given /\ descriptions.t = "dict" THEN Raise("KeyError")
        ELSE IF \E i \in 1..4 : final_descs[i].t # "str"
             THEN Raise("AttributeError")
        ELSE Ok(Chart("vark_circles", <<>>, <<>>, final_descs))

\* ---------------------------------------- RawPsychometricTest.parsed_sections
\* json_result is None (t = "none") or a str (t = "str") whose text is "empty",
\* "invalid" (not JSON) or "json" with the value it parses to in data.
json_loads(text) ==
    IF text.text = "json" THEN Ok(text.data) ELSE Raise("JSONDecodeError")

HasResult(raw) == raw.json_result.t = "str" /\ raw.json_result.text # "empty"

OptionalStr(x) == x.t \in {"str", "none"}

\* SectionData(**s)
SectionData(e) ==
    IF e.t # "obj" THEN Raise("TypeError")
    ELSE IF \/ e.section.t # "str"
            \/ e.section_score.t # "str"
            \/ ~OptionalStr(Get(e.description, Str(<<>>)))
            \/ ~OptionalStr(Get(e.representation, Str(<<>>)))
            \/ ~OptionalStr(Get(e.interpretation, Str(<<>>)))
         THEN Raise("ValidationError")
    ELSE Ok([section |-> e.section,
             description |-> Get(e.description, Str(<<>>)),
             representation |-> Get(e.representation, Str(<<>>)),
             interpretation |-> Get(e.interpretation, Str(<<>>)),
             section_score |-> e.section_score])

\* [SectionData(**s) for s in raw_sections]
SectionList(raw_sections) ==
    IF raw_sections.t = "list"
    THEN LET made == [i \in 1..Len(raw_sections.s) |->
                         SectionData(raw_sections.s[i])]
         IN  IF \E i \in 1..Len(made) : ~made[i].ok
             THEN Raise(made[CHOOSE i \in 1..Len(made) :
                                 /\ ~made[i].ok
                                 /\ \A j \in 1..(i - 1) : made[j].ok].exc)
             ELSE Ok([i \in 1..Len(made) |-> made[i].v])
    ELSE IF raw_sections.t \in {"str", "dict"}
         THEN IF raw_sections.s = <<>> THEN Ok(<<>>) ELSE Raise("TypeError")
    ELSE Raise("TypeError")


\* mutant: the payload is not checked to be an object
parsed_sections_unchecked(raw) ==
    IF ~HasResult(raw) THEN Ok(<<>>)
    ELSE LET data == json_loads(raw.json_result)
         IN  IF ~data.ok THEN Ok(<<>>)
             ELSE IF data.v.t # "dict" THEN Raise("AttributeError")
             ELSE SectionList(Get(data.v.sections, PyList(<<>>)))

parsed_sections(raw) ==
    IF ~HasResult(raw) THEN Ok(<<>>)
    ELSE LET data == json_loads(raw.json_result)
         IN  IF ~data.ok THEN Ok(<<>>)
             ELSE IF data.v.t # "dict" THEN Ok(<<>>)
             ELSE SectionList(Get(data.v.sections, PyList(<<>>)))

\* ------------------------------------------------ TestProcessor.process_raw
NoInterpretation == <<"No interpretation available.">>


\* mutant: original_score holds the formatted label instead of the raw score
ProcessedSection_label(section) ==
    LET pct == parse_score(section.section_score).v
        interp == IF Truthy(section.interpretation) THEN section.interpretation
                  ELSE IF Truthy(section.description) THEN section.description
                  ELSE IF Truthy(section.representation)
                       THEN section.representation
                  ELSE Str(NoInterpretation)
    IN  [section |-> section.section,
         score_percentage |-> pct,
         original_score |-> section.section,
         interpretation |-> interp,
         benchmark |-> get_benchmark(pct)]

\* mutant: representation is preferred to description (the earlier revision)
ProcessedSection_reordered(section) ==
    LET pct == parse_score(section.section_score).v
        interp == IF Truthy(section.interpretation) THEN section.interpretation
                  ELSE IF Truthy(section.representation)
                       THEN section.representation
                  ELSE IF Truthy(section.description) THEN section.description
                  ELSE Str(NoInterpretation)
    IN  [section |-> section.section,
         score_percentage |-> pct,
         original_score |-> section.section_score,
         interpretation |-> interp,
         benchmark |-> get_benchmark(pct)]

ProcessedSection(section) ==
    LET pct == parse_score(section.section_score).v
        interp == IF Truthy(section.interpretation) THEN section.interpretation
                  ELSE IF Truthy(section.description) THEN section.description
                  ELSE IF Truthy(section.representation)
                       THEN section.representation
                  ELSE Str(NoInterpretation)
    IN  [section |-> section.section,
         score_percentage |-> pct,
         original_score |-> section.section_score,
         interpretation |-> interp,
         benchmark |-> get_benchmark(pct)]

EmptyDict == <<>>
Dict(name, value) == [x \in {name} |-> value]

\* charts[name] = renderer(...) of the branch chosen by key
Dispatch(key, labels, scores) ==
    IF key = <<"s", "e", "c", "o", "n", "d">>
    THEN [name |-> "bar", call |-> generate_bar_chart(labels, scores)]
    ELSE IF key = <<"f", "i", "r", "s", "t">>
    THEN [name |-> "radar", call |-> generate_radar_chart(labels, scores)]
    ELSE IF key = <<"t", "h", "i", "r", "d">>
    THEN [name |-> "donut", call |-> generate_radial_bar_chart(labels, scores)]
    ELSE IF key = <<"f", "o", "u", "r", "t", "h">>
    THEN [name |-> "seven_segment",
          call |-> generate_seven_segment_chart(labels, scores)]
    ELSE IF key = <<"f", "i", "f", "t", "h">>
    THEN [name |-> "vark_circles",
          call |-> generate_vark_circles(scores, labels, PyNone)]
    ELSE [name |-> "variable_radius",
          call |-> generate_variable_radius_chart(labels, scores)]

NoTest == [test_name |-> PyNone, description |-> PyNone, key_name |-> <<>>,
           sections |-> <<>>, charts |-> EmptyDict]

Returned(test) == [ok |-> TRUE, exc |-> "", test |-> test]
Raised(exc) == [ok |-> FALSE, exc |-> exc, test |-> NoTest]

\* lines 30-40: the name and description, taken from the payload when it
\* is a JSON object
Header(raw) ==
    LET loaded == json_loads(raw.json_result)
        named == HasResult(raw) /\ loaded.ok /\ loaded.v.t = "dict"
    IN  [test_name |-> IF named THEN Get(loaded.v.test_name, raw.category)
                       ELSE raw.category,
         description |-> IF named THEN Get(loaded.v.description, Str(<<>>))
                         ELSE Str(<<>>)]

\* lines 42-59: the loop over raw_test.parsed_sections
SectionLoop(sections) ==
    IF ~sections.ok THEN [ok |-> FALSE, exc |-> sections.exc, v |-> <<>>]
    ELSE [ok |-> TRUE, exc |-> "",
          v |-> [i \in 1..Len(sections.v) |-> ProcessedSection(sections.v[i])]]

\* lines 61-81: charts is empty without scores, else holds the one chart of
\* the key
Charts(key_name, processed_sections) ==
    LET labels == [i \in 1..Len(processed_sections) |->
                      processed_sections[i].section]
        scores == [i \in 1..Len(processed_sections) |->
                      processed_sections[i].score_percentage]
        key == IF key_name # <<>> THEN lower(key_name)
               ELSE <<"d", "e", "f", "a", "u", "l", "t">>
    IN  IF scores = <<>>
        THEN [name |-> "", call |-> Ok(Chart("", <<>>, <<>>, <<>>))]
        ELSE Dispatch(key, labels, scores)

\* lines 83-89: ProcessedTest(...), which validates test_name: str and
\* description: Optional[str]
ProcessedTest(raw, head, loop, drawn) ==
    IF ~loop.ok THEN Raised(loop.exc)
    ELSE IF ~drawn.call.ok THEN Raised(drawn.call.exc)
    ELSE IF head.test_name.t # "str" \/ ~OptionalStr(head.description)
         THEN Raised("ValidationError")
    ELSE Returned([test_name |-> head.test_name,
                   description |-> head.description,
                   key_name |-> raw.key_name,
                   sections |-> loop.v,
                   charts |-> IF drawn.name = "" THEN EmptyDict
                              ELSE Dict(drawn.name, drawn.call.v)])

Charted(raw, head, loop) ==
    ProcessedTest(raw, head, loop, Charts(raw.key_name, loop.v))

process_raw(raw) == Charted(raw, Header(raw), SectionLoop(parsed_sections(raw)))

\* ------------------------------------------------------------ llm_service
\* A response of _get_llm_response: t = "none" when the provider call raises,
\* else the returned str as for json_result.

\* _generate_vark_details, from the response to its prompt
generate_vark_details(response) ==
    IF response.t = "none" THEN PyList(<<>>)
    ELSE LET loaded == json_loads(response)
         IN  IF ~loaded.ok THEN PyList(<<>>)
             ELSE IF loaded.v.t # "dict" THEN PyList(<<>>)
             ELSE Get(loaded.v.vark_descriptions, PyList(<<>>))

\* the test that `for test in processed_tests: if test.key_name == 'fifth'`
\* leaves in fifth_key_test: the last such test, 0 for None
FifthKeyTest(tests) ==
    LET found == {i \in 1..Len(tests) :
                     tests[i].key_name = <<"f", "i", "f", "t", "h">>}
    IN  IF found = {} THEN 0
        ELSE CHOOSE i \in found : \A j \in found : j <= i

\* int(total_score / max(count, 1)) fails when a score is not finite
RawAvgError(tests) ==
    \E i \in 1..Len(tests) : \E j \in 1..Len(tests[i].sections) :
        ~IsFin(tests[i].sections[j].score_percentage)

\* d[key] = value
Put(d, key, value) ==
    [x \in (DOMAIN d) \cup {key} |-> IF x = key THEN value ELSE d[x]]

\* mutant: the new chart is stored in every test of the list
Regenerated_everywhere(tests, fifth, updated_vark) ==
    [i \in 1..Len(tests) |->
        [tests[i] EXCEPT !.charts = Put(@, "vark_circles", updated_vark)]]

\* fifth_key_test.charts['vark_circles'] = updated_vark
Regenerated(tests, fifth, updated_vark) ==
    [tests EXCEPT ![fifth].charts = Put(@, "vark_circles", updated_vark)]

\* ------------------------------------------------- ChartFactory: drawings
\* What a renderer puts on its figure, for the renderers whose geometry is
\* specified.  Lengths are in tenths (radial bars) or in 1/10000 (wedges) of
\* an axis unit, angles are fractions of a degree.

\* x < y for floats that are not nan
FloatLt(x, y) ==
    IF IsFin(x) /\ IsFin(y) THEN x.n * Pow10(y.f) < y.n * Pow10(x.f)
    ELSE IF x.k = "inf" THEN x.n < 0 /\ y # x
    ELSE y.k = "inf" /\ y.n > 0

\* list(zip(scores, labels, colors_to_use)): zip stops at the shortest, and
\* colors_to_use = (base_colors * 2)[:len(labels)] has at most 14 colours
Zipped(labels, scores) ==
    [i \in 1..Min(Min(Len(labels), Len(scores)), 2 * PaletteLen) |->
        [score |-> scores[i], label |-> labels[i],
         color |-> ((i - 1) % PaletteLen) + 1]]

\* data.sort(key=lambda x: x[0]) is stable: an item goes behind the items
\* that are not greater
RECURSIVE InsertByScore(_, _)
InsertByScore(sorted, item) ==
    IF sorted = <<>> THEN <<item>>
    ELSE IF FloatLt(item.score, sorted[Len(sorted)].score)
         THEN Append(InsertByScore(SubSeq(sorted, 1, Len(sorted) - 1), item),
                     sorted[Len(sorted)])
    ELSE Append(sorted, item)

RECURSIVE SortedByScore(_)
SortedByScore(data) ==
    IF data = <<>> THEN <<>>
    ELSE InsertByScore(SortedByScore(SubSeq(data, 1, Len(data) - 1)),
                       data[Len(data)])

Reversed(seq) == [i \in 1..Len(seq) |-> seq[Len(seq) + 1 - i]]

BarWidthTenths == 10
GapTenths == 1
InnerRadiusTenths == 20

\* radii = [inner_radius + i * (bar_width + gap) for i in range(N)], the
\* bars drawn at them and the legend of bars[::-1], sorted_labels[::-1]
RingsOf(sorted) ==
    [rings |-> [i \in 1..Len(sorted) |->
                   [score |-> sorted[i].score, label |-> sorted[i].label,
                    color |-> sorted[i].color,
                    radius |-> InnerRadiusTenths
                               + (i - 1) * (BarWidthTenths + GapTenths)]],
     legend |-> Reversed([i \in 1..Len(sorted) |-> sorted[i].label])]

radial_bar_rings(labels, scores) == RingsOf(SortedByScore(Zipped(labels, scores)))

\* a finite score with at most one decimal, in tenths
InTenths(x) == x.n * Pow10(1 - x.f)

MaxRadius == 10000        \* max_radius = 1.0
MinRadius == 500          \* if current_radius < 0.05: current_radius = 0.05
MinTextRadius == 2000     \* if text_r < 0.2:
FloorTextRadius == 2500   \*     text_r = 0.25
StartAngle == 90
FullCircle == 360

\* current_radius = (item['value'] / 100.0) * max_radius, floored
CurrentRadius(value) ==
    LET r == (InTenths(value) * MaxRadius) \div 1000
    IN  IF FloatLt(value, Fin(5, 0)) THEN MinRadius ELSE r

\* text_r = current_radius * 0.6, replaced when below 0.2.  In tenths of
\* 1/10000 so that the product is exact.
TextRadius(current_radius) ==
    IF current_radius * 6 < MinTextRadius * 10 THEN FloorTextRadius
    ELSE (current_radius * 6) \div 10

\* the wedge of data_points[i - 1]: theta1 and theta2 are the numerators of
\* start_angle - (i * angle_step) over the denominator num_segments
Wedge(item, i, num_segments) ==
    [label |-> item.label, value |-> item.score,
     theta1 |-> StartAngle * num_segments - i * FullCircle,
     theta2 |-> StartAngle * num_segments - (i - 1) * FullCircle,
     den |-> num_segments,
     r |-> CurrentRadius(item.score),
     text_r |-> TextRadius(CurrentRadius(item.score))]

\* for i, item in enumerate(data_points): ...
seven_segment_wedges(labels, scores) ==
    LET n == Min(Len(labels), Len(scores))
    IN  [wedges |->
            [i \in 1..n |-> Wedge([label |-> labels[i], score |-> scores[i]], i, n)]]

\* an int with its value
PyIntOf(n) == [t |-> "int", s |-> <<>>, n |-> n]

\* sizes = [67.5, 67.5, 67.5, 67.5, 90] in half degrees, and their colours;
\* the last is the background colour, the blank sector
PieSizes == <<135, 135, 135, 135, 180>>
PieColors == <<"c_d_green", "c_l_green", "c_yellow", "c_red", "bg_color">>
PieStartAngle == 0 - 45
TotalSpan == 270
NeedleStart == 225

RECURSIVE SumTo(_, _)
SumTo(seq, k) == IF k = 0 THEN 0 ELSE seq[k] + SumTo(seq, k - 1)

\* ax.pie(sizes, startangle=-45, counterclock=True): wedge k starts where
\* wedge k - 1 ends and spans 360 * sizes[k] / sum(sizes); in half degrees
PieWedges ==
    LET total == SumTo(PieSizes, Len(PieSizes))
    IN  [k \in 1..Len(PieSizes) |->
            [color |-> PieColors[k],
             theta1 |-> 2 * PieStartAngle
                        + (2 * FullCircle * SumTo(PieSizes, k - 1)) \div total,
             theta2 |-> 2 * PieStartAngle
                        + (2 * FullCircle * SumTo(PieSizes, k)) \div total]]

\* mutant: the needle sweeps the full circle
NeedleAngle_fullturn(value, min_val, max_val) ==
    LET num == NeedleStart * (max_val - min_val) - FullCircle * (value - min_val)
        den == max_val - min_val
    IN  IF den < 0 THEN [num |-> 0 - num, den |-> 0 - den]
        ELSE [num |-> num, den |-> den]

\* angle_deg = start_angle - (total_span * (value - min_val)
\*                            / (max_val - min_val)),
\* the fraction num / den of a degree with den > 0
NeedleAngle(value, min_val, max_val) ==
    LET num == NeedleStart * (max_val - min_val) - TotalSpan * (value - min_val)
        den == max_val - min_val
    IN  IF den < 0 THEN [num |-> 0 - num, den |-> 0 - den]
        ELSE [num |-> num, den |-> den]

generate_gauge(value, min_val, max_val) ==
    IF value.t \notin {"int", "float"} THEN Raise("TypeError")
    ELSE IF max_val = min_val THEN Raise("ZeroDivisionError")
    ELSE Ok([chart |-> "gauge", wedges |-> PieWedges,
             needle |-> NeedleAngle(value.n, min_val, max_val),
             text |-> value.n])

\* vark_data: the four circles, each with the description at its position
VarkLetters == <<"V", "A", "R", "K">>
VarkTitles == <<"Visual", "Auditory", "Reading / Writing", "Kinesthetic">>
VarkCenters == <<<<0 - 1, 1>>, <<1, 1>>, <<0 - 1, 0 - 1>>, <<1, 0 - 1>>>>

vark_data(final_descs) ==
    [i \in 1..4 |-> [letter |-> VarkLetters[i], title |-> VarkTitles[i],
                     center |-> VarkCenters[i], desc |-> final_descs[i]]]

\* ------------------------------------------------------------- idle values
NotCalled == [ok |-> FALSE, v |-> Zero, exc |-> "not called"]
NotProcessed == Raised("not called")
NoResult == [t |-> "none", text |-> "empty", data |-> PyNone]
NoRaw == [key_name |-> <<>>, category |-> Str(<<>>), json_result |-> NoResult]

NoResponse == [t |-> "none", text |-> "empty", data |-> PyNone]

IdleScore == score_arg = PyNone /\ score_res = NotCalled
IdleBenchmark == bench_score = Zero /\ tier = ""
IdleProcess == raw_test = NoRaw /\ result = NotProcessed
IdleAnalysis ==
    fifth_key_test = 0 /\ main_resp_str = NoResponse /\ vark_descs = PyNone
IdleReport ==
    /\ batch = <<>> /\ pc = "idle" /\ idx = 1 /\ processed_tests = <<>>
    /\ IdleAnalysis /\ calls = 0 /\ regens = 0

NoCall == [fn |-> "none"]
NotDrawn == Raise("not called")
Pending == drawing.exc = "not called"
IdleChart == chart_call = NoCall /\ drawing = NotDrawn
IdleRender == renders = <<>> /\ figs = <<>> /\ surface = <<>>

\* ------------------------------------------------ specification: parse_score
Alphabet == {"0", "2", "3", "8", ".", "/", "-", "a", "nan", "inf"}

Strings == UNION {[1..n -> Alphabet] : n \in 0..MaxLen}

NonStrings ==
    {PyNone, PyInt, [t |-> "float", s |-> <<>>], [t |-> "bytes", s |-> <<>>]}
    \cup {[t |-> k, s |-> items] :
             k \in {"list", "dict"},
             items \in {<<>>, << <<"/">> >>, << <<"8", "/", "2">> >>,
                        << <<"a">>, <<"/">> >>}}

ScoreArgs == {Str(s) : s \in Strings} \cup NonStrings

InitScore ==
    /\ score_arg \in ScoreArgs
    /\ score_res = NotCalled
    /\ IdleBenchmark /\ IdleProcess /\ IdleReport /\ IdleChart /\ IdleRender

ParseScore ==
    /\ score_res = NotCalled
    /\ score_res' = parse_score(score_arg)
    /\ UNCHANGED <<chartVars, renderVars, score_arg, benchVars, processVars,
                   reportVars>>

NextScore == ParseScore

SpecScore == InitScore /\ [][NextScore]_vars

\* ---------------------------------------------- specification: get_benchmark
BenchScores ==
    {Fin(n, 1) : n \in (-MaxBelowTenths)..MaxTenths} \cup {NaN, Inf, NegInf}

InitBenchmark ==
    /\ bench_score \in BenchScores
    /\ tier = ""
    /\ IdleScore /\ IdleProcess /\ IdleReport /\ IdleChart /\ IdleRender

GetBenchmark ==
    /\ tier = ""
    /\ tier' = get_benchmark(bench_score)
    /\ UNCHANGED <<chartVars, renderVars, scoreVars, bench_score, processVars,
                   reportVars>>

NextBenchmark == GetBenchmark

SpecBenchmark == InitBenchmark /\ [][NextBenchmark]_vars

\* ------------------------------------------------ specification: process_raw
Keys == {<<>>,
         <<"s", "e", "c", "o", "n", "d">>, <<"S", "e", "c", "o", "n", "d">>,
         <<"f", "i", "r", "s", "t">>, <<"t", "h", "i", "r", "d">>,
         <<"f", "o", "u", "r", "t", "h">>, <<"F", "O", "U", "R", "T", "H">>,
         <<"f", "i", "f", "t", "h">>, <<"F", "i", "f", "t", "h">>,
         <<"b", "a", "r">>, <<"x">>}

ScoreSamples == {<<"8", "/", "1", "0">>, <<"2", "3", "/", "8", "0">>,
                 <<"1", "5", "/", "1", "0">>, <<"1", "5", "0">>, <<"-", "5">>,
                 <<"1", ".", "8", "8">>, <<"5", "5">>, <<"a">>, <<"nan">>,
                 <<"3", "/", "0">>}

Entry(section, score, interp, desc, rep) ==
    [t |-> "obj", section |-> section, section_score |-> score,
     interpretation |-> interp, description |-> desc, representation |-> rep]

Entries ==
    {Entry(Str(<<"A">>), Str(sc), Absent, Absent, Absent) : sc \in ScoreSamples}
    \cup {Entry(Str(<<"B">>), Str(<<"8", "/", "1", "0">>), i, d, r) :
             i \in {Str(<<>>), Str(<<"I">>)},
             d \in {PyNone, Str(<<"D">>)},
             r \in {Absent, Str(<<"R">>)}}
    \cup {Entry(Str(<<"C">>), Str(<<"5", "5">>), PyNone, Str(<<>>), Str(<<" ">>)),
          Entry(Absent, Str(<<"5", "5">>), Absent, Absent, Absent),
          Entry(PyNone, Str(<<"5", "5">>), Absent, Absent, Absent),
          Entry(Str(<<"A">>), Absent, Absent, Absent, Absent),
          Entry(Str(<<"A">>), PyNone, Absent, Absent, Absent),
          PyInt}

SectionLists == {PyList(l) : l \in UNION {[1..n -> Entries] : n \in 0..MaxSections}}

ShortSections ==
    {Absent, PyNone, PyInt, Str(<<>>), Str(<<"x">>), PyDict(<<>>),
     PyDict(<<"k">>)}
    \cup {PyList(<<e>>) : e \in Entries}

Object(test_name, description, sections) ==
    [t |-> "dict", s |-> <<>>, test_name |-> test_name,
     description |-> description, sections |-> sections]

Text(kind) == [t |-> "str", text |-> kind, data |-> PyNone]
Json(value) == [t |-> "str", text |-> "json", data |-> value]

JsonResults ==
    {NoResult, Text("empty"), Text("invalid")}
    \cup {Json(v) : v \in {PyNone, PyInt, PyList(<<>>), Str(<<"x">>)}}
    \cup {Json(Object(n, d, ss)) :
             n \in {Absent, PyNone, Str(<<"T">>)},
             d \in {Absent, PyNone, Str(<<"D">>)},
             ss \in ShortSections}
    \cup {Json(Object(Str(<<"T">>), Absent, ss)) : ss \in SectionLists}

RawTests ==
    [key_name : Keys, category : {Str(<<"Cat">>)}, json_result : JsonResults]

InitProcess ==
    /\ raw_test \in RawTests
    /\ result = NotProcessed
    /\ IdleScore /\ IdleBenchmark /\ IdleReport /\ IdleChart /\ IdleRender

ProcessRaw ==
    /\ result = NotProcessed
    /\ result' = process_raw(raw_test)
    /\ UNCHANGED <<chartVars, renderVars, scoreVars, benchVars, raw_test,
                   reportVars>>

NextProcess == ProcessRaw

SpecProcess == InitProcess /\ [][NextProcess]_vars

\* ------------------------------------- specification: generate_report request
ReportKeys == {<<"f", "i", "f", "t", "h">>, <<"F", "i", "f", "t", "h">>,
               <<"s", "e", "c", "o", "n", "d">>}

ReportResults ==
    {NoResult,
     Json(Object(Str(<<"T">>), Absent,
                 PyList(<<Entry(Str(<<"A">>), Str(<<"8", "/", "1", "0">>),
                                Absent, Absent, Absent)>>))),
     Json(Object(Absent, Str(<<"D">>),
                 PyList(<<Entry(Str(<<"A">>), Str(<<"nan">>),
                                Absent, Absent, Absent)>>))),
     Json(Object(Absent, Absent,
                 PyList(<<Entry(Absent, Str(<<"5", "5">>),
                                Absent, Absent, Absent)>>)))}

ReportTests ==
    [key_name : ReportKeys, category : {Str(<<"Cat">>)},
     json_result : ReportResults]

AnalysisObject(score) ==
    [t |-> "dict", s |-> <<>>, employability_score |-> score]

MainResponses ==
    {NoResponse, Text("invalid"), Json(PyList(<<>>)),
     Json(AnalysisObject(Absent)), Json(AnalysisObject(PyInt)),
     Json(AnalysisObject(Str(<<"high">>)))}

VarkObject(value) == [t |-> "dict", s |-> <<>>, vark_descriptions |-> value]

FourA == <<Str(<<"v1">>), Str(<<"a1">>), Str(<<"r1">>), Str(<<"k1">>)>>
FourB == <<Str(<<"v2">>), Str(<<"a2">>), Str(<<"r2">>), Str(<<"k2">>)>>

VarkResponses ==
    {NoResponse, Text("invalid"), Json(PyList(<<>>))}
    \cup {Json(VarkObject(v)) :
             v \in {Absent, PyNone, PyInt, PyList(FourA), PyList(FourB),
                    PyList(SubSeq(FourA, 1, 3)), PyList(FourA \o <<Str(<<"x">>)>>),
                    PyList(<<PyInt, PyInt, PyInt, PyInt>>),
                    Str(<<"v", "a", "r", "k">>),
                    PyDict(<<"v", "a", "r", "k">>)}}

InitReport ==
    /\ batch \in UNION {[1..n -> ReportTests] : n \in 0..MaxTests}
    /\ pc = "process"
    /\ idx = 1
    /\ processed_tests = <<>>
    /\ IdleAnalysis
    /\ calls = 0
    /\ regens = 0
    /\ IdleScore /\ IdleBenchmark /\ IdleProcess /\ IdleChart /\ IdleRender

\* one iteration of `for raw_test in student_input.psychometric_data`
ProcessNext ==
    /\ pc = "process"
    /\ idx <= Len(batch)
    /\ LET processed == process_raw(batch[idx])
       IN  IF ~HasResult(batch[idx])
           THEN /\ idx' = idx + 1
                /\ UNCHANGED <<pc, processed_tests>>
           ELSE IF ~processed.ok
           THEN /\ pc' = "http500"
                /\ UNCHANGED <<idx, processed_tests>>
           ELSE /\ idx' = idx + 1
                /\ processed_tests' =
                       IF processed.test.sections # <<>>
                       THEN Append(processed_tests, processed.test)
                       ELSE processed_tests
                /\ UNCHANGED pc
    /\ UNCHANGED <<chartVars, renderVars, scoreVars, benchVars, processVars,
                   batch, analysisVars,
                   calls, regens>>

\* generate_ai_analysis up to its await
Analyse ==
    /\ calls' = calls + 1
    /\ IF RawAvgError(processed_tests)
       THEN pc' = "http500" /\ UNCHANGED analysisVars
       ELSE /\ pc' = "await"
            /\ fifth_key_test' = FifthKeyTest(processed_tests)
            /\ UNCHANGED <<main_resp_str, vark_descs>>
    /\ UNCHANGED <<chartVars, renderVars, scoreVars, benchVars, processVars,
                   batch, idx,
                   processed_tests, regens>>

\* generate_report calls generate_ai_analysis after its loop
CallAnalysis ==
    /\ pc = "process"
    /\ idx > Len(batch)
    /\ Analyse

\* a caller gives the same list to generate_ai_analysis again
CallAgain ==
    /\ pc = "done"
    /\ calls < MaxCalls
    /\ Analyse

\* the awaited responses arrive
Gather ==
    /\ pc = "await"
    /\ \E main \in MainResponses :
       \E vark \in IF fifth_key_test # 0 THEN VarkResponses ELSE {NoResponse} :
           IF main.t = "none"
           THEN pc' = "http502" /\ UNCHANGED <<main_resp_str, vark_descs>>
           ELSE /\ pc' = "gathered"
                /\ main_resp_str' = main
                /\ vark_descs' = IF fifth_key_test # 0
                                 THEN generate_vark_details(vark)
                                 ELSE PyList(<<>>)
    /\ UNCHANGED <<chartVars, renderVars, scoreVars, benchVars, processVars,
                   batch, idx,
                   processed_tests, fifth_key_test, calls, regens>>

\* result_json = json.loads(main_resp_str); result_json.get(...)
ParseMain ==
    /\ pc = "gathered"
    /\ LET loaded == json_loads(main_resp_str)
       IN  pc' = IF loaded.ok /\ loaded.v.t = "dict" THEN "parsed" ELSE "http502"
    /\ UNCHANGED <<chartVars, renderVars, scoreVars, benchVars, processVars,
                   batch, idx,
                   processed_tests, analysisVars, calls, regens>>

\* mutant: the length of vark_descs is not tested
Regenerate_any_length ==
    /\ pc = "parsed"
    /\ LET test == processed_tests[fifth_key_test]
           scores == [i \in 1..Len(test.sections) |->
                         test.sections[i].score_percentage]
           labels == [i \in 1..Len(test.sections) |-> test.sections[i].section]
           updated_vark == generate_vark_circles(scores, labels, vark_descs)
       IN  IF fifth_key_test = 0 \/ ~IsTrue(vark_descs)
           THEN pc' = "gauge" /\ UNCHANGED <<processed_tests, regens>>
           ELSE IF ~HasLen(vark_descs)
           THEN pc' = "http502" /\ UNCHANGED <<processed_tests, regens>>
           ELSE IF ~updated_vark.ok
           THEN pc' = "http502" /\ UNCHANGED <<processed_tests, regens>>
           ELSE /\ processed_tests' =
                       Regenerated(processed_tests, fifth_key_test, updated_vark.v)
                /\ regens' = regens + 1
                /\ pc' = "gauge"
    /\ UNCHANGED <<chartVars, renderVars, scoreVars, benchVars, processVars,
                   batch, idx,
                   analysisVars, calls>>

\* if fifth_key_test and vark_descs and len(vark_descs) == 4: ...
Regenerate ==
    /\ pc = "parsed"
    /\ LET test == processed_tests[fifth_key_test]
           scores == [i \in 1..Len(test.sections) |->
                         test.sections[i].score_percentage]
           labels == [i \in 1..Len(test.sections) |-> test.sections[i].section]
           updated_vark == generate_vark_circles(scores, labels, vark_descs)
       IN  IF fifth_key_test = 0 \/ ~IsTrue(vark_descs)
           THEN pc' = "gauge" /\ UNCHANGED <<processed_tests, regens>>
           ELSE IF ~HasLen(vark_descs)
           THEN pc' = "http502" /\ UNCHANGED <<processed_tests, regens>>
           ELSE IF Len(vark_descs.s) # 4
           THEN pc' = "gauge" /\ UNCHANGED <<processed_tests, regens>>
           ELSE IF ~updated_vark.ok
           THEN pc' = "http502" /\ UNCHANGED <<processed_tests, regens>>
           ELSE /\ processed_tests' =
                       Regenerated(processed_tests, fifth_key_test, updated_vark.v)
                /\ regens' = regens + 1
                /\ pc' = "gauge"
    /\ UNCHANGED <<chartVars, renderVars, scoreVars, benchVars, processVars,
                   batch, idx,
                   analysisVars, calls>>

\* employability_gauge = ChartFactory.generate_gauge(employability_score),
\* which subtracts min_val from the value, and the return
Gauge ==
    /\ pc = "gauge"
    /\ LET score == json_loads(main_resp_str).v.employability_score
       IN  pc' = IF score.t \in {"absent", "int", "float"} THEN "done"
                 ELSE "http500"
    /\ fifth_key_test' = 0
    /\ main_resp_str' = NoResponse
    /\ vark_descs' = PyNone
    /\ UNCHANGED <<chartVars, renderVars, scoreVars, benchVars, processVars,
                   batch, idx,
                   processed_tests, calls, regens>>

Init == InitReport

Next ==
    \/ ProcessNext
    \/ CallAnalysis
    \/ CallAgain
    \/ Gather
    \/ ParseMain
    \/ Regenerate
    \/ Gauge

Spec == Init /\ [][Next]_vars

\* ------------------------------------------ specification: renderer calls
\* One call of a renderer with arguments from the sets below.
PairLabels == {Str(<<"A">>), Str(<<"B">>)}
PairScores == {Fin(30, 0), Fin(50, 0), Fin(70, 0)}
Pairs == [label : PairLabels, score : PairScores]

\* every list of up to MaxShort pairs
ShortLists == UNION {[1..n -> Pairs] : n \in 1..MaxShort}

\* longer lists, the scores spread over 0..100 by a stride
Strides == {0, 7, 37, 100}
Offsets == {0, 3}
LongLists ==
    {[i \in 1..n |-> [label |-> Str(<<UpperCase[i]>>),
                      score |-> Fin((a * i + b) % 101, 0)]] :
        n \in (MaxShort + 1)..MaxPairs, a \in Strides, b \in Offsets}

\* one pair, the score any of the scores given to get_benchmark
SingleLists == {<<[label |-> Str(<<"A">>), score |-> x]>> : x \in BenchScores}

LabelsOf(pairs) == [i \in 1..Len(pairs) |-> pairs[i].label]
ScoresOf(pairs) == [i \in 1..Len(pairs) |-> pairs[i].score]

PairCall(fn, pairs) ==
    [fn |-> fn, labels |-> LabelsOf(pairs), scores |-> ScoresOf(pairs)]

GaugeBounds == {0 - 10, 0, 20, 50, 100}
GaugeValues ==
    {PyIntOf(v) : v \in (MaxGauge - 220)..MaxGauge} \cup {Str(<<"high">>), PyNone}

VarkDescriptions ==
    {PyNone, PyList(<<>>), Str(<<>>), PyList(SubSeq(FourA, 1, 3)),
     PyList(FourA), PyList(FourB), PyList(FourA \o <<Str(<<"x">>)>>),
     PyInt, PyList(<<PyInt, PyInt, PyInt, PyInt>>),
     Str(<<"v", "a", "r", "k">>), PyDict(<<"v", "a", "r", "k">>)}

VarkLists == {<<>>} \cup UNION {[1..n -> Pairs] : n \in 1..(MaxShort - 1)}

ChartCalls ==
    {PairCall(fn, pairs) :
        fn \in {"generate_radial_bar_chart", "generate_seven_segment_chart"},
        pairs \in ShortLists \cup LongLists \cup SingleLists}
    \cup {[fn |-> "generate_gauge", value |-> v, min_val |-> lo, max_val |-> hi] :
             v \in GaugeValues, lo \in GaugeBounds, hi \in GaugeBounds}
    \cup {[fn |-> "generate_vark_circles", labels |-> LabelsOf(pairs),
           scores |-> ScoresOf(pairs), descriptions |-> d] :
             pairs \in VarkLists, d \in VarkDescriptions}

InitChart ==
    /\ chart_call \in ChartCalls
    /\ drawing = NotDrawn
    /\ IdleScore /\ IdleBenchmark /\ IdleProcess /\ IdleReport /\ IdleRender

\* the drawing of a call that returns, the exception of one that raises
Drawn(image, shapes) == IF image.ok THEN Ok(shapes) ELSE image

RadialBar ==
    /\ chart_call.fn = "generate_radial_bar_chart"
    /\ Pending
    /\ drawing' =
           Drawn(generate_radial_bar_chart(chart_call.labels, chart_call.scores),
                 radial_bar_rings(chart_call.labels, chart_call.scores))
    /\ UNCHANGED <<scoreVars, benchVars, processVars, reportVars, chart_call,
                   renderVars>>

SevenSegment ==
    /\ chart_call.fn = "generate_seven_segment_chart"
    /\ Pending
    /\ drawing' =
           Drawn(generate_seven_segment_chart(chart_call.labels,
                                              chart_call.scores),
                 seven_segment_wedges(chart_call.labels, chart_call.scores))
    /\ UNCHANGED <<scoreVars, benchVars, processVars, reportVars, chart_call,
                   renderVars>>

GaugeChart ==
    /\ chart_call.fn = "generate_gauge"
    /\ Pending
    /\ drawing' = generate_gauge(chart_call.value, chart_call.min_val,
                                 chart_call.max_val)
    /\ UNCHANGED <<scoreVars, benchVars, processVars, reportVars, chart_call,
                   renderVars>>

VarkCircles ==
    /\ chart_call.fn = "generate_vark_circles"
    /\ Pending
    /\ LET image == generate_vark_circles(chart_call.scores, chart_call.labels,
                                          chart_call.descriptions)
       IN  drawing' = Drawn(image, vark_data(image.v.descs))
    /\ UNCHANGED <<scoreVars, benchVars, processVars, reportVars, chart_call,
                   renderVars>>

NextChart == RadialBar \/ SevenSegment \/ GaugeChart \/ VarkCircles

SpecChart == InitChart /\ [][NextChart]_vars

\* ------------------------------------------------- specification: pyplot
\* Renderer calls running in threads of one process.  matplotlib.pyplot keeps
\* the open figures in one module-level table, the current figure being the
\* one made or activated last; plt.subplots and plt.figure add to it,
\* plt.xticks, plt.yticks, plt.ylim and plt.axis act on the current figure,
\* plt.close(fig) removes fig.  A thread can be switched between any two
\* statements.
Op(kind, op) == [kind |-> kind, op |-> op]

\* the statements of a renderer and of _to_base64, by what they act on:
\* "figure" makes the call's figure, "axes" is a method of the call's own fig
\* or ax, "pyplot" acts on the current figure, "values" is the part that
\* raises on the values it is given
Program(fn) ==
    IF fn = "generate_bar_chart"
    THEN <<Op("figure", "plt.subplots"), Op("axes", "ax.bar"),
           Op("pyplot", "plt.xticks"), Op("values", "ax.text"),
           Op("axes", "ax.set_ylim"), Op("savefig", "fig.savefig"),
           Op("close", "plt.close")>>
    ELSE IF fn = "generate_radar_chart"
    THEN <<Op("figure", "plt.figure"), Op("axes", "fig.add_subplot"),
           Op("pyplot", "plt.xticks"), Op("axes", "ax.tick_params"),
           Op("pyplot", "plt.yticks"), Op("pyplot", "plt.ylim"),
           Op("axes", "ax.plot"), Op("savefig", "fig.savefig"),
           Op("close", "plt.close")>>
    ELSE IF fn = "generate_seven_segment_chart"
    THEN <<Op("figure", "plt.subplots"), Op("axes", "ax.axis"),
           Op("values", "ax.add_patch"), Op("axes", "ax.set_xlim"),
           Op("savefig", "fig.savefig"), Op("close", "plt.close")>>
    ELSE <<Op("figure", "plt.subplots"), Op("axes", "ax.pie"),
           Op("values", "ax.add_patch"), Op("axes", "ax.text"),
           Op("pyplot", "plt.axis"), Op("savefig", "fig.savefig"),
           Op("close", "plt.close")>>

\* what the call does when nothing else runs
Outcome(call) ==
    IF call.fn = "generate_bar_chart"
    THEN generate_bar_chart(call.labels, call.scores)
    ELSE IF call.fn = "generate_radar_chart"
    THEN generate_radar_chart(call.labels, call.scores)
    ELSE IF call.fn = "generate_seven_segment_chart"
    THEN generate_seven_segment_chart(call.labels, call.scores)
    ELSE generate_gauge(call.value, 0, 100)

OneLabel == <<Str(<<"A">>)>>
ManyLabels == [i \in 1..(2 * PaletteLen + 1) |-> Str(<<UpperCase[i]>>)]
ManyScores == [i \in 1..(2 * PaletteLen + 1) |-> Fin(50, 0)]

RenderCall(fn, labels, scores, value) ==
    [fn |-> fn, labels |-> labels, scores |-> scores, value |-> value,
     at |-> 1, status |-> "running", image |-> {}]

RenderCalls ==
    {RenderCall(fn, OneLabel, <<x>>, PyNone) :
        fn \in {"generate_bar_chart", "generate_radar_chart",
                "generate_seven_segment_chart"},
        x \in {Fin(55, 0), NaN}}
    \cup {RenderCall("generate_seven_segment_chart", ManyLabels, ManyScores,
                     PyNone)}
    \cup {RenderCall("generate_gauge", <<>>, <<>>, v) :
             v \in {PyIntOf(50), Str(<<"high">>)}}

Running(c) == renders[c].status = "running"
Statement(c) == Program(renders[c].fn)[renders[c].at]
CurrentFigure == figs[Len(figs)]

Applied(c, fig) ==
    [surface EXCEPT ![fig] = @ \cup {[by |-> c, op |-> Statement(c).op]}]
Advanced(c) == [renders EXCEPT ![c].at = @ + 1]

InitRender ==
    /\ renders = <<>> /\ figs = <<>> /\ surface = <<>>
    /\ IdleScore /\ IdleBenchmark /\ IdleProcess /\ IdleReport /\ IdleChart

\* a thread enters a renderer
Start ==
    /\ Len(renders) < MaxRenders
    /\ Cardinality({c \in 1..Len(renders) : Running(c)}) < MaxThreads
    /\ \E call \in RenderCalls : renders' = Append(renders, call)
    /\ surface' = Append(surface, {})
    /\ UNCHANGED figs
    /\ UNCHANGED <<scoreVars, benchVars, processVars, reportVars, chartVars>>

\* fig, ax = plt.subplots(...) or fig = plt.figure(...)
Figure(c) ==
    /\ Running(c) /\ Statement(c).kind = "figure"
    /\ figs' = Append(figs, c)
    /\ renders' = Advanced(c)
    /\ UNCHANGED surface
    /\ UNCHANGED <<scoreVars, benchVars, processVars, reportVars, chartVars>>

\* a method of the call's own figure or axes
Axes(c) ==
    /\ Running(c) /\ Statement(c).kind = "axes"
    /\ surface' = Applied(c, c)
    /\ renders' = Advanced(c)
    /\ UNCHANGED figs
    /\ UNCHANGED <<scoreVars, benchVars, processVars, reportVars, chartVars>>

\* plt.xticks, plt.yticks, plt.ylim, plt.axis: on the current figure
Pyplot(c) ==
    /\ Running(c) /\ Statement(c).kind = "pyplot"
    /\ surface' = Applied(c, CurrentFigure)
    /\ renders' = Advanced(c)
    /\ UNCHANGED figs
    /\ UNCHANGED <<scoreVars, benchVars, processVars, reportVars, chartVars>>

\* the statements that raise on a score that is not finite, on a fifteenth
\* segment, or on a value that is not a number; the exception leaves the
\* renderer at once
Values(c) ==
    /\ Running(c) /\ Statement(c).kind = "values"
    /\ IF Outcome(renders[c]).ok
       THEN /\ surface' = Applied(c, c)
            /\ renders' = Advanced(c)
       ELSE /\ renders' = [renders EXCEPT ![c].status = "raised"]
            /\ UNCHANGED surface
    /\ UNCHANGED figs
    /\ UNCHANGED <<scoreVars, benchVars, processVars, reportVars, chartVars>>

\* _to_base64: fig.savefig(buf, ...) encodes what is on the figure
Savefig(c) ==
    /\ Running(c) /\ Statement(c).kind = "savefig"
    /\ renders' = [renders EXCEPT ![c].image = surface[c], ![c].at = @ + 1]
    /\ UNCHANGED <<figs, surface>>
    /\ UNCHANGED <<scoreVars, benchVars, processVars, reportVars, chartVars>>

\* _to_base64: plt.close(fig), and the return
Close(c) ==
    /\ Running(c) /\ Statement(c).kind = "close"
    /\ figs' = SelectSeq(figs, LAMBDA f : f # c)
    /\ renders' = [renders EXCEPT ![c].status = "returned"]
    /\ UNCHANGED surface
    /\ UNCHANGED <<scoreVars, benchVars, processVars, reportVars, chartVars>>

NextRender ==
    \/ Start
    \/ \E c \in 1..Len(renders) : Figure(c)
    \/ \E c \in 1..Len(renders) : Axes(c)
    \/ \E c \in 1..Len(renders) : Pyplot(c)
    \/ \E c \in 1..Len(renders) : Values(c)
    \/ \E c \in 1..Len(renders) : Savefig(c)
    \/ \E c \in 1..Len(renders) : Close(c)

SpecRender == InitRender /\ [][NextRender]_vars

\* ==================================================================== claims
Called == score_res # NotCalled
Processed == result # NotProcessed

\* the sections list of the payload, as process_raw is given it
PayloadSections(raw) ==
    IF /\ HasResult(raw)
       /\ raw.json_result.text = "json"
       /\ raw.json_result.data.t = "dict"
       /\ raw.json_result.data.sections.t = "list"
    THEN raw.json_result.data.sections.s
    ELSE <<>>

\* C1: process_raw never raises: whatever the payload holds, the call returns
\* a ProcessedTest.
C1_NeverRaises == Processed => result.ok

\* C2: a payload that is None, the empty string, not JSON, or JSON that is
\* not an object gives a ProcessedTest without sections and charts, named by
\* the category, with the empty description, under every key.
NoObject(raw) ==
    \/ ~HasResult(raw)
    \/ raw.json_result.text = "invalid"
    \/ raw.json_result.data.t # "dict"

C3_ScoreRange ==
    (Processed /\ result.ok) =>
        \A i \in 1..Len(result.test.sections) :
            LET pct == result.test.sections[i].score_percentage
            IN  /\ IsFin(pct)
                /\ pct.f <= 1
                /\ 0 <= pct.n
                /\ pct.n <= 100 * Pow10(pct.f)

\* the two operands of a score string "n/d" whose sides both parse as
\* numbers
IsFraction(arg) ==
    /\ arg.t = "str"
    /\ Cardinality({i \in 1..Len(arg.s) : arg.s[i] = "/"}) = 1
    /\ float(Split(arg.s)[1]).ok
    /\ float(Split(arg.s)[2]).ok

Numerator(arg) == float(Split(arg.s)[1]).v
Denominator(arg) == float(Split(arg.s)[2]).v

\* 10 * v = p / q exactly, for the finite float v = 100 * n / d
ExactP(n, d) == n.n * Pow10(d.f + 3) * (IF d.n < 0 THEN -1 ELSE 1)
ExactQ(n, d) == Abs(d.n) * Pow10(n.f)

\* n <= d for floats (false when either is nan)
FloatLe(n, d) ==
    \/ IsFin(n) /\ IsFin(d) /\ n.n * Pow10(d.f) <= d.n * Pow10(n.f)
    \/ IsFin(n) /\ d = Inf
    \/ n = NegInf /\ d.k # "nan"
    \/ n = Inf /\ d = Inf

InPercentRange(v) == IsFin(v) /\ 0 <= v.n /\ v.n <= 100 * Pow10(v.f)

FailingInput(arg) ==
    \/ arg.t # "str"
    \/ /\ ~HasSlash(arg.s)
       /\ ~float(arg.s).ok
    \/ /\ HasSlash(arg.s)
       /\ \/ Len(Split(arg.s)) # 2
          \/ \E i \in 1..2 : ~float(Split(arg.s)[i]).ok
          \/ FloatEqInt(float(Split(arg.s)[2]).v, 0)

C5_FailuresGiveZero ==
    (Called /\ FailingInput(score_arg)) => score_res = Ok(Zero)

\* C6: get_benchmark gives exactly the tier of the score's range (>= 75 High,
\* [60, 75) Above Average, [40, 60) Average, < 40 Below Average), and a higher
\* score never gets a lower tier.
Rank(name) ==
    IF name = "High" THEN 4
    ELSE IF name = "Above Average" THEN 3
    ELSE IF name = "Average" THEN 2
    ELSE IF name = "Below Average" THEN 1
    ELSE 0

\* the score in tenths; -inf and +inf lie below and above every bound used
Tenths(x) ==
    IF IsFin(x) THEN x.n * Pow10(1 - x.f)
    ELSE IF x = Inf THEN MaxTenths + 10
    ELSE -MaxBelowTenths - 10

C6_Benchmark ==
    (tier # "" /\ bench_score.k # "nan") =>
        LET s == Tenths(bench_score)
        IN  /\ tier = "High" <=> s >= 750
            /\ tier = "Above Average" <=> (600 <= s /\ s < 750)
            /\ tier = "Average" <=> (400 <= s /\ s < 600)
            /\ tier = "Below Average" <=> s < 400
            /\ \A other \in BenchScores :
                   (other.k # "nan" /\ Tenths(other) >= s) =>
                       Rank(get_benchmark(other)) >= Rank(tier)

C6_Witness == tier = "High" /\ bench_score = Fin(75, 0)

\* C7: a returned ProcessedTest without sections has no chart; with sections
\* it has exactly one chart, named by the key without regard to letter case:
\* second -> bar, first -> radar, third -> donut, fourth -> seven_segment,
\* fifth -> vark_circles, any other key -> variable_radius.
ChartNameOf(key_name) ==
    IF key_name \in {<<"s", "e", "c", "o", "n", "d">>,
                     <<"S", "e", "c", "o", "n", "d">>} THEN "bar"
    ELSE IF key_name = <<"f", "i", "r", "s", "t">> THEN "radar"
    ELSE IF key_name = <<"t", "h", "i", "r", "d">> THEN "donut"
    ELSE IF key_name \in {<<"f", "o", "u", "r", "t", "h">>,
                          <<"F", "O", "U", "R", "T", "H">>}
         THEN "seven_segment"
    ELSE IF key_name \in {<<"f", "i", "f", "t", "h">>,
                          <<"F", "i", "f", "t", "h">>} THEN "vark_circles"
    ELSE "variable_radius"

C7_ChartDispatch ==
    (Processed /\ result.ok) =>
        LET charts == result.test.charts
        IN  /\ result.test.sections = <<>> => DOMAIN charts = {}
            /\ result.test.sections # <<>> =>
                   /\ DOMAIN charts = {ChartNameOf(raw_test.key_name)}
                   /\ \A name \in DOMAIN charts : charts[name].chart = name

C7_Witness ==
    /\ Processed /\ result.ok
    /\ raw_test.key_name = <<"F", "O", "U", "R", "T", "H">>
    /\ DOMAIN result.test.charts = {"seven_segment"}

\* C8: a returned ProcessedTest has one section per entry of the payload's
\* sections, in the same order, each with the entry's label and its raw score
\* string as original_score, and key_name exactly as given.
C8_InputPreserved ==
    (Processed /\ result.ok) =>
        LET src == PayloadSections(raw_test)
            out == result.test.sections
        IN  /\ Len(out) = Len(src)
            /\ \A i \in 1..Len(out) :
                   /\ out[i].section = src[i].section
                   /\ out[i].original_score = src[i].section_score
            /\ result.test.key_name = raw_test.key_name

C8_Witness ==
    /\ Processed /\ result.ok
    /\ raw_test.key_name = <<"S", "e", "c", "o", "n", "d">>
    /\ Len(result.test.sections) = 2
    /\ result.test.sections[1].section # result.test.sections[2].section
    /\ result.test.sections[1].original_score = Str(<<"2", "3", "/", "8", "0">>)
    /\ result.test.sections[1].score_percentage = Fin(287, 1)

\* C9: every section's interpretation is the first non-empty text among the
\* entry's interpretation, description and representation, in that order, and
\* "No interpretation available." when none is; it is never empty.
NonEmptyText(x) == x.t = "str" /\ Len(x.s) > 0

C9_Interpretation ==
    (Processed /\ result.ok) =>
        \A i \in 1..Len(result.test.sections) :
            LET e == PayloadSections(raw_test)[i]
                cands == <<e.interpretation, e.description, e.representation>>
                found == {j \in 1..3 : NonEmptyText(cands[j])}
                got == result.test.sections[i].interpretation
            IN  /\ found # {} =>
                       got = cands[CHOOSE j \in found : \A h \in found : j <= h]
                /\ found = {} => got = Str(<<"No interpretation available.">>)
                /\ NonEmptyText(got)

C9_Witness ==
    /\ Processed /\ result.ok
    /\ Len(result.test.sections) = 1
    /\ PayloadSections(raw_test)[1].interpretation = Str(<<>>)
    /\ PayloadSections(raw_test)[1].description = Str(<<"D">>)
    /\ PayloadSections(raw_test)[1].representation = Str(<<"R">>)
    /\ result.test.sections[1].interpretation = Str(<<"D">>)

\* C10: regenerating the quadrant-circle chart replaces only the
\* 'vark_circles' entry of the one ProcessedTest it is done for: the other
\* entries of its charts, its names and sections, and the charts of every
\* other ProcessedTest of the list stay as they were, the second time too.
C10_RegenerationFrame ==
    [][pc # "process" =>
        /\ Len(processed_tests') = Len(processed_tests)
        /\ \A i \in 1..Len(processed_tests) :
               LET old == processed_tests[i]
                   new == processed_tests'[i]
               IN  /\ new.test_name = old.test_name
                   /\ new.description = old.description
                   /\ new.key_name = old.key_name
                   /\ new.sections = old.sections
                   /\ DOMAIN new.charts \subseteq
                          (DOMAIN old.charts) \cup {"vark_circles"}
                   /\ \A name \in (DOMAIN old.charts) \ {"vark_circles"} :
                          /\ name \in DOMAIN new.charts
                          /\ new.charts[name] = old.charts[name]
                   /\ i # fifth_key_test => new.charts = old.charts]_vars

C10_Witness ==
    /\ regens = 2
    /\ Len(processed_tests) = 2
    /\ DOMAIN processed_tests[1].charts = {"bar"}
    /\ processed_tests[2].charts["vark_circles"].descs = FourB

\* C11: renderer calls are thread-safe: however the statements of calls
\* running in parallel interleave, every drawing operation of a call is
\* applied to the figure that call made and to no other, so the image a call
\* returns holds exactly the operations of that call.
OwnOperations(c) ==
    LET program == Program(renders[c].fn)
    IN  {[by |-> c, op |-> program[i].op] :
            i \in {j \in 1..Len(program) :
                      program[j].kind \in {"axes", "pyplot", "values"}}}

C11_ThreadSafe ==
    \A c \in 1..Len(renders) :
        /\ \A e \in surface[c] : e.by = c
        /\ renders[c].status = "returned" => renders[c].image = OwnOperations(c)

\* C12: a renderer call that has finished, by returning an image or by
\* raising, has closed the figure it made: no figure of a finished call is
\* among the open figures.
C12_SurfaceReleased ==
    \A c \in 1..Len(renders) :
        renders[c].status \in {"returned", "raised"} =>
            \A i \in 1..Len(figs) : figs[i] # c

\* the (label, score) pairs a call is given
InputPairs ==
    [i \in 1..Len(chart_call.scores) |->
        [label |-> chart_call.labels[i], score |-> chart_call.scores[i]]]

FiniteScores == \A i \in 1..Len(chart_call.scores) : IsFin(chart_call.scores[i])

Count(seq, x) == Cardinality({i \in 1..Len(seq) : seq[i] = x})

\* C13: generate_radial_bar_chart draws, for every non-empty list of pairs,
\* rings that are exactly the pairs given (as many of each pair as given),
\* innermost to outermost by ascending score, the ring at index i at radius
\* inner_radius + i * (width + gap), and a legend listing the rings from the
\* outermost to the innermost.
C13_RadialRings ==
    (/\ chart_call.fn = "generate_radial_bar_chart"
     /\ ~Pending
     /\ FiniteScores) =>
        /\ drawing.ok
        /\ LET rings == drawing.v.rings
               pairs == [i \in 1..Len(rings) |->
                            [label |-> rings[i].label, score |-> rings[i].score]]
           IN  /\ Len(rings) = Len(InputPairs)
               /\ \A i \in 1..Len(InputPairs) :
                      Count(pairs, InputPairs[i]) = Count(InputPairs, InputPairs[i])
               /\ \A i \in 1..(Len(rings) - 1) :
                      ~FloatLt(rings[i + 1].score, rings[i].score)
               /\ \A i \in 1..Len(rings) :
                      rings[i].radius
                          = InnerRadiusTenths + (i - 1) * (BarWidthTenths + GapTenths)
               /\ drawing.v.legend
                      = [i \in 1..Len(rings) |-> rings[Len(rings) + 1 - i].label]

\* C14: for min < max, generate_gauge puts the needle at
\* 225 - 270 * (value - min) / (max - min) degrees: 225 at value = min, -45 at
\* value = max, 90 (135 degrees along the sweep) at value 50 of 0..100; and for
\* min <= value <= max the needle lies within the 270 degrees from -45 to 225,
\* on one of the four coloured wedges and never inside the blank one.
GaugeCase ==
    /\ chart_call.fn = "generate_gauge"
    /\ ~Pending
    /\ chart_call.value.t = "int"
    /\ chart_call.min_val < chart_call.max_val

C14_GaugeNeedle ==
    GaugeCase =>
        /\ drawing.ok
        /\ LET value == chart_call.value.n
               lo == chart_call.min_val
               hi == chart_call.max_val
               needle == drawing.v.needle
           IN  /\ needle.den > 0
               /\ needle.num * (hi - lo)
                      = needle.den * (225 * (hi - lo) - 270 * (value - lo))
               /\ value = lo => needle.num = 225 * needle.den
               /\ value = hi => needle.num = (0 - 45) * needle.den
               /\ (value = 50 /\ lo = 0 /\ hi = 100) =>
                      /\ needle.num = 90 * needle.den
                      /\ 225 * needle.den - needle.num = 135 * needle.den
               /\ (lo <= value /\ value <= hi) =>
                      /\ (0 - 45) * needle.den <= needle.num
                      /\ needle.num <= 225 * needle.den
                      /\ \E k \in 1..Len(drawing.v.wedges) :
                             /\ drawing.v.wedges[k].color # "bg_color"
                             /\ drawing.v.wedges[k].theta1 * needle.den
                                    <= 2 * needle.num
                             /\ 2 * needle.num
                                    <= drawing.v.wedges[k].theta2 * needle.den
                      /\ \A k \in 1..Len(drawing.v.wedges) :
                             drawing.v.wedges[k].color = "bg_color" =>
                                 ~(/\ drawing.v.wedges[k].theta1 * needle.den
                                          < 2 * needle.num + 2 * FullCircle * needle.den
                                   /\ 2 * needle.num + 2 * FullCircle * needle.den
                                          < drawing.v.wedges[k].theta2 * needle.den)

C14_Witness ==
    /\ GaugeCase
    /\ chart_call.value = PyIntOf(50)
    /\ chart_call.min_val = 0 /\ chart_call.max_val = 100
    /\ drawing.ok
    /\ drawing.v.needle = [num |-> 9000, den |-> 100]
    /\ drawing.v.wedges[5] = [color |-> "bg_color", theta1 |-> 450, theta2 |-> 630]

\* C15: what generate_vark_circles draws depends on descriptions only: four
\* description strings are put, in their order, on the circles Visual,
\* Auditory, Reading/Writing and Kinesthetic; None, an empty list and a list
\* of fewer or more than four strings give the four fixed paragraphs; and
\* the call draws the same with any other scores and labels.
VarkCase == chart_call.fn = "generate_vark_circles" /\ ~Pending

StringList(x) ==
    x.t = "list" /\ \A i \in 1..Len(x.s) : x.s[i].t = "str"

C15_VarkDescriptions ==
    VarkCase =>
        LET d == chart_call.descriptions
        IN  /\ (StringList(d) /\ Len(d.s) = 4) =>
                   /\ drawing.ok
                   /\ \A i \in 1..4 :
                          /\ drawing.v[i].letter = <<"V", "A", "R", "K">>[i]
                          /\ drawing.v[i].desc = d.s[i]
            /\ (d = PyNone \/ (StringList(d) /\ Len(d.s) # 4)) =>
                   /\ drawing.ok
                   /\ \A i \in 1..4 :
                          /\ drawing.v[i].letter = <<"V", "A", "R", "K">>[i]
                          /\ drawing.v[i].desc = default_descs[i]
            /\ \A pairs \in VarkLists :
                   LET other == generate_vark_circles(ScoresOf(pairs),
                                                      LabelsOf(pairs), d)
                   IN  /\ other.ok = drawing.ok
                       /\ other.exc = drawing.exc
                       /\ drawing.ok => vark_data(other.v.descs) = drawing.v

C15_Witness ==
    /\ VarkCase
    /\ chart_call.descriptions = PyList(FourB)
    /\ Len(chart_call.scores) = 2
    /\ drawing.ok
    /\ drawing.v[3].title = "Reading / Writing"
    /\ drawing.v[3].desc = Str(<<"r2">>)

\* C16: generate_seven_segment_chart draws, for every N >= 1 pairs, N slices,
\* one per pair in input order, slice i (from 0) spanning the angles from
\* 90 - (i + 1) * 360 / N to 90 - i * 360 / N: equal, contiguous and covering
\* the circle; the call does not fail because of N.
SevenSegmentCase ==
    /\ chart_call.fn = "generate_seven_segment_chart"
    /\ ~Pending
    /\ FiniteScores

C16_SevenSegmentSlices ==
    SevenSegmentCase =>
        /\ drawing.ok
        /\ LET wedges == drawing.v.wedges
               N == Len(InputPairs)
           IN  /\ Len(wedges) = N
               /\ \A i \in 1..N :
                      /\ wedges[i].label = InputPairs[i].label
                      /\ wedges[i].value = InputPairs[i].score
                      /\ wedges[i].theta1 * N = wedges[i].den * (90 * N - i * 360)
                      /\ wedges[i].theta2 * N
                             = wedges[i].den * (90 * N - (i - 1) * 360)
                      /\ (wedges[i].theta2 - wedges[i].theta1) * N
                             = 360 * wedges[i].den
               /\ \A i \in 1..(N - 1) : wedges[i].theta1 = wedges[i + 1].theta2
               /\ wedges[1].theta2 - wedges[N].theta1 = 360 * wedges[1].den

\* C17: in generate_seven_segment_chart, for every score in [0, 100] the
\* filled radius of the slice is score / 100 * max_radius, or the minimum
\* visible radius when that is smaller, and the percent label is at 60% of the
\* filled radius, so never farther out than the filled wedge reaches.
InPercent(x) == IsFin(x) /\ ~FloatLt(x, Fin(0, 0)) /\ ~FloatLt(Fin(100, 0), x)

C17_LabelInsideWedge ==
    (SevenSegmentCase /\ drawing.ok) =>
        \A i \in 1..Len(drawing.v.wedges) :
            LET wedge == drawing.v.wedges[i]
                proportional == InTenths(wedge.value) * 10
            IN  InPercent(wedge.value) =>
                    /\ wedge.r = IF proportional < MinRadius THEN MinRadius
                                 ELSE proportional
                    /\ wedge.text_r * 10 = wedge.r * 6
                    /\ wedge.text_r <= wedge.r

C19_EligibilityAgrees ==
    pc \in {"await", "gathered", "parsed"} =>
        \A i \in 1..Len(processed_tests) :
            "vark_circles" \in DOMAIN processed_tests[i].charts =>
                fifth_key_test = i

\* C20: once the main response has been received and parsed as a JSON
\* object, no value that _generate_vark_details returned makes the call end
\* with the 502 error, and when that value is not a list of exactly four
\* strings the 'vark_circles' entry that process_raw made is kept.
C20_DescriptionFailureIsolated ==
    [][pc = "parsed" =>
          /\ pc' # "http502"
          /\ ~(StringList(vark_descs) /\ Len(vark_descs.s) = 4) =>
                 processed_tests' = processed_tests]_vars

====
